---- MODULE Spec2Model ----
(***************************************************************************)
(* Sewer-Flow-Analytical-QA-Framework, backend/qa_engine.py.               *)
(*                                                                         *)
(* StormEventAnalyzer.detect_storms is modelled as a state machine: one    *)
(* step per executed block of the function (entry, one loop iteration,     *)
(* post-loop finalisation and return).  SewerQAEngine.generate_rag_status  *)
(* and the five calculators are pure functions, each modelled as an        *)
(* operator applied by one action.  SpecSteps runs the loop body of        *)
(* detect_storms statement by statement, and SpecConc runs two calls on    *)
(* the same engine objects with their steps interleaved.                   *)
(*                                                                         *)
(* Representation of values:                                               *)
(*   - a timestamp (pandas Timestamp) is an integer number of seconds      *)
(*     since an arbitrary origin; a Timedelta's total_seconds() is the     *)
(*     integer difference of two timestamps;                               *)
(*   - rainfall values are integers (mm);                                  *)
(*   - Python's None is the record None for a storm and NoTime for a       *)
(*     timestamp;                                                          *)
(*   - a dict is a function from its keys (strings) to values; a storm     *)
(*     dict is a record;                                                   *)
(*   - flow_cv and qh_correlation are held in hundredths (0.05 is 5,       *)
(*     0.3 is 30, 1.0 is 100); percentages are held in whole percents;     *)
(*   - a float returned by a calculator is an exact value: a rational      *)
(*     [num, den] in lowest terms, a signed square root of a rational, an  *)
(*     infinity, or NaN; floating-point rounding is not modelled;          *)
(*   - a pandas Series is a sequence carrying the default RangeIndex.      *)
(***************************************************************************)
EXTENDS Integers, Sequences, FiniteSets, TLC

VARIABLES
    pc,               \* position in the modelled call
    rainfall_series,  \* detect_storms argument: sequence of rain values
    timestamps,       \* detect_storms argument: sequence of timestamps
    dry_gap_hours,    \* detect_storms argument
    i,                \* 1-based index of the next (ts, rain) pair of the zip
    storms,           \* local list of finalized storms; the return value
    current_storm,    \* local open-storm accumulator, or None
    last_rain_time,   \* local timestamp of the last rain-positive sample
    metrics,          \* generate_rag_status argument
    rag_status,       \* generate_rag_status return value
    calc_name,        \* the calculator called
    calc_args,        \* its arguments
    calc_result,      \* its return value
    risk_threshold,   \* SewerQAEngine attribute, in hundredths
    run,              \* 1 for the first call on the engine, 2 for a repeat
    first_result,     \* what the first call returned
    other_call        \* a concurrent call on the same engine objects: its
                      \* function, arguments, position, locals and result

vars == <<pc, rainfall_series, timestamps, dry_gap_hours, i, storms,
          current_storm, last_rain_time, metrics, rag_status,
          calc_name, calc_args, calc_result, risk_threshold, run, first_result,
          other_call>>

storm_vars == <<rainfall_series, timestamps, dry_gap_hours, i, storms,
                current_storm, last_rain_time>>

rag_vars == <<metrics, rag_status>>

calc_vars == <<calc_name, calc_args, calc_result>>

run_vars == <<run, first_result>>

conc_vars == <<other_call>>

-----------------------------------------------------------------------------
(* Bounds of the model *)

\* longest series explored
MaxLen == 3

\* timestamps, in seconds: 90 s apart (a span that is no whole number of
\* minutes), exactly six hours apart (90 -> 21690), one second more than six
\* hours apart (21690 -> 43291) and further apart
TimePoints == {0, 90, 21690, 43291}

\* rain values: negative, zero and positive ones on both sides of the
\* significance thresholds
RainValues == {-1, 0, 3, 5, 6}

\* dry_gap_hours values: the default 6, zero and a negative one
DryGaps == {-1, 0, 6}

\* the worked example's dry run holds 23 .. 23 + MaxExtraZeros zero samples
MaxExtraZeros == 3

\* longest flow or depth series given to a calculator
MaxSamples == 3

\* flow and depth readings, in hundredths: negative, zero, the default
\* dropout threshold 0.05 and above it
SampleValues == {-5, 0, 5, 10}

\* dropout thresholds, in hundredths: zero and the default 0.05
Thresholds == {0, 5}

\* row counts given to calculate_completeness
RowCounts == {0, 50, 95, 100}

\* volumes given to calculate_volume_imbalance
Volumes == {-50, 0, 50, 100}

-----------------------------------------------------------------------------
(* Python values *)

None == [none |-> TRUE]

NoTime == -1

NoStatus == "unset"

Min(a, b) == IF a <= b THEN a ELSE b

Max(a, b) == IF a >= b THEN a ELSE b

RECURSIVE Sum(_)
Sum(s) == IF s = <<>> THEN 0 ELSE s[1] + Sum(Tail(s))

\* int(x / d) for a float quotient: truncation toward zero
IntTrunc(n, d) == IF n >= 0 THEN n \div d ELSE -((-n) \div d)

-----------------------------------------------------------------------------
(* StormEventAnalyzer *)

\* a zero reading taken for rain
RainPositive_OrZero(rain) == rain >= 0

\* line 61: if rain > 0
RainPositive(rain) == rain > 0

\* ids counted from the number of finalized storms, without the + 1
NewStorm_IdFromZero(finalized, ts) ==
    [id |-> Len(finalized), start_time |-> ts, end_time |-> ts,
     data |-> <<>>, depth_mm |-> 0, peak_intensity |-> 0]

\* lines 63 and 66: the dict literal of a newly opened storm
NewStorm(finalized, ts) ==
    [id |-> Len(finalized) + 1, start_time |-> ts, end_time |-> ts,
     data |-> <<>>, depth_mm |-> 0, peak_intensity |-> 0]

\* a dry gap that also splits at exactly dry_gap_hours
GapExceeded_AtLeast(ts, last, gap) ==
    /\ last # NoTime
    /\ (ts - last) >= gap * 3600

\* line 64: last_rain_time and (ts - last_rain_time).total_seconds() / 3600 > dry_gap_hours
\* (a Timestamp is always truthy; seconds / 3600 > gap iff seconds > gap * 3600)
GapExceeded(ts, last, gap) ==
    /\ last # NoTime
    /\ (ts - last) > gap * 3600

\* end_time left at the storm's first sample
Accumulate_KeepEnd(storm, ts, rain) ==
    [storm EXCEPT !.data = Append(@, rain),
                  !.peak_intensity = Max(@, rain)]

\* the peak overwritten by the latest value instead of the maximum
Accumulate_LastPeak(storm, ts, rain) ==
    [storm EXCEPT !.data = Append(@, rain),
                  !.end_time = ts,
                  !.peak_intensity = rain]

\* the value not appended to the storm's data
Accumulate_NoAppend(storm, ts, rain) ==
    [storm EXCEPT !.end_time = ts,
                  !.peak_intensity = Max(@, rain)]

\* lines 68-70: append the value, move end_time, raise the peak
Accumulate(storm, ts, rain) ==
    [storm EXCEPT !.data = Append(@, rain),
                  !.end_time = ts,
                  !.peak_intensity = Max(@, rain)]

\* depth_mm left at the 0 of the dict literal
DepthMm_Unset(data) == 0

\* line 77
DepthMm(data) == Sum(data)

\* the division by 60 forgotten: the span in seconds
DurationMins_Seconds(start, end) == end - start

\* line 78: int((end_time - start_time).total_seconds() / 60)
DurationMins(start, end) == IntTrunc(end - start, 60)

\* the depth threshold taken as inclusive
Significance_DepthInclusive(depth_mm, peak_intensity) ==
    IF depth_mm >= 5 \/ peak_intensity >= 6 THEN "Significant" ELSE "Minor"

\* line 79
Significance(depth_mm, peak_intensity) ==
    IF depth_mm > 5 \/ peak_intensity >= 6 THEN "Significant" ELSE "Minor"

\* lines 76-81: the storm dict with depth_mm, duration_mins and status set
\* and the key "data" deleted
finalize_storm(storm) ==
    [id |-> storm.id,
     start_time |-> storm.start_time,
     end_time |-> storm.end_time,
     depth_mm |-> DepthMm(storm.data),
     peak_intensity |-> storm.peak_intensity,
     duration_mins |-> DurationMins(storm.start_time, storm.end_time),
     status |-> Significance(DepthMm(storm.data), storm.peak_intensity)]

\* the dry gap measured from the open storm's start instead of from the
\* last rain-positive sample
LoopBody_GapFromStart(st, ts, rain, gap) ==
    IF RainPositive(rain)
    THEN LET split == st.current_storm # None
                      /\ GapExceeded(ts, st.current_storm.start_time, gap)
             finalized == IF split
                          THEN Append(st.storms, finalize_storm(st.current_storm))
                          ELSE st.storms
             open == IF st.current_storm = None \/ split
                     THEN NewStorm(finalized, ts)
                     ELSE st.current_storm
         IN  [storms |-> finalized,
              current_storm |-> Accumulate(open, ts, rain),
              last_rain_time |-> ts]
    ELSE st

\* last_rain_time = ts dedented out of the if: the dry gap measured from
\* the previous sample of any value
LoopBody_LastAnySample(st, ts, rain, gap) ==
    IF RainPositive(rain)
    THEN LET split == st.current_storm # None
                      /\ GapExceeded(ts, st.last_rain_time, gap)
             finalized == IF split
                          THEN Append(st.storms, finalize_storm(st.current_storm))
                          ELSE st.storms
             open == IF st.current_storm = None \/ split
                     THEN NewStorm(finalized, ts)
                     ELSE st.current_storm
         IN  [storms |-> finalized,
              current_storm |-> Accumulate(open, ts, rain),
              last_rain_time |-> ts]
    ELSE [st EXCEPT !.last_rain_time = ts]

\* lines 61-71: the body of the for loop on one (ts, rain) pair, as a
\* function of the three locals it reads and writes
LoopBody(st, ts, rain, gap) ==
    IF RainPositive(rain)
    THEN LET split == st.current_storm # None
                      /\ GapExceeded(ts, st.last_rain_time, gap)
             finalized == IF split
                          THEN Append(st.storms, finalize_storm(st.current_storm))
                          ELSE st.storms
             open == IF st.current_storm = None \/ split
                     THEN NewStorm(finalized, ts)
                     ELSE st.current_storm
         IN  [storms |-> finalized,
              current_storm |-> Accumulate(open, ts, rain),
              last_rain_time |-> ts]
    ELSE st

\* the post-loop finalisation forgotten
PostLoop_NoFinalize(finalized, storm) == finalized

\* line 73: if current_storm: storms.append(self._finalize_storm(current_storm))
\* (a storm dict always has keys, so it is truthy exactly when it is not None)
PostLoop(finalized, storm) ==
    IF storm # None THEN Append(finalized, finalize_storm(storm)) ELSE finalized

\* number of pairs zip(timestamps, rainfall_series) yields
ZipLen == Min(Len(timestamps), Len(rainfall_series))

\* the series is in chronological order (the contract of the parsing stage)
NonDecreasing(ts) == \A k \in 1..(Len(ts) - 1) : ts[k] <= ts[k + 1]

SeriesUpTo(S, n) == UNION {[1..k -> S] : k \in 0..n}

\* lines 57-71: the three loop locals after the first n pairs of
\* zip(timestamps, rainfall_series)
RECURSIVE RunLoop(_, _, _, _)
RunLoop(ts, rain, gap, n) ==
    IF n = 0
    THEN [storms |-> <<>>, current_storm |-> None, last_rain_time |-> NoTime]
    ELSE LoopBody(RunLoop(ts, rain, gap, n - 1), ts[n], rain[n], gap)

\* lines 53-74: the list detect_storms returns, as a function of its
\* arguments
detect_storms(ts, rain, gap) ==
    IF rain = <<>>
    THEN <<>>
    ELSE LET st == RunLoop(ts, rain, gap, Min(Len(ts), Len(rain)))
         IN  PostLoop(st.storms, st.current_storm)

\* the list of storms kept from one call to the next instead of the fresh
\* storms = [] of line 54
Enter_KeepStorms ==
    /\ pc = "start"
    /\ storms' = storms
    /\ IF rainfall_series = <<>>
       THEN /\ pc' = "done"
            /\ UNCHANGED <<current_storm, last_rain_time, i>>
       ELSE /\ pc' = "loop"
            /\ current_storm' = None
            /\ last_rain_time' = NoTime
            /\ i' = 1
    /\ UNCHANGED <<rainfall_series, timestamps, dry_gap_hours>>
    /\ UNCHANGED <<rag_vars, calc_vars, risk_threshold, run_vars, conc_vars>>

\* lines 54-58: storms = []; the empty series returns at once; otherwise
\* the two loop locals are set to None
Enter ==
    /\ pc = "start"
    /\ storms' = <<>>
    /\ IF rainfall_series = <<>>
       THEN /\ pc' = "done"
            /\ UNCHANGED <<current_storm, last_rain_time, i>>
       ELSE /\ pc' = "loop"
            /\ current_storm' = None
            /\ last_rain_time' = NoTime
            /\ i' = 1
    /\ UNCHANGED <<rainfall_series, timestamps, dry_gap_hours>>
    /\ UNCHANGED <<rag_vars, calc_vars, risk_threshold, run_vars, conc_vars>>

\* lines 60-71: one iteration of the for loop
Iterate ==
    /\ pc = "loop"
    /\ i <= ZipLen
    /\ LET st == LoopBody([storms |-> storms, current_storm |-> current_storm,
                           last_rain_time |-> last_rain_time],
                          timestamps[i], rainfall_series[i], dry_gap_hours)
       IN  /\ storms' = st.storms
           /\ current_storm' = st.current_storm
           /\ last_rain_time' = st.last_rain_time
    /\ i' = i + 1
    /\ UNCHANGED <<pc, rainfall_series, timestamps, dry_gap_hours>>
    /\ UNCHANGED <<rag_vars, calc_vars, risk_threshold, run_vars, conc_vars>>

\* lines 73-74: the loop is exhausted; finalize the open storm and return
Return ==
    /\ pc = "loop"
    /\ i > ZipLen
    /\ storms' = PostLoop(storms, current_storm)
    /\ pc' = "done"
    /\ UNCHANGED <<rainfall_series, timestamps, dry_gap_hours, i,
                   current_storm, last_rain_time>>
    /\ UNCHANGED <<rag_vars, calc_vars, risk_threshold, run_vars, conc_vars>>

\* SewerQAEngine.__init__ with the default risk_threshold (0.8), first call
Constructed ==
    /\ risk_threshold = 80
    /\ run = 1
    /\ first_result = NoStatus

\* no generate_rag_status call in this behaviour
RagIdle ==
    /\ metrics = <<>>
    /\ rag_status = NoStatus

\* no calculator call in this behaviour
CalcIdle ==
    /\ calc_name = "none"
    /\ calc_args = <<>>
    /\ calc_result = NoStatus

\* no concurrent call in this behaviour
NoOtherCall == other_call = None

\* no detect_storms call in this behaviour
StormIdle ==
    /\ timestamps = <<>>
    /\ rainfall_series = <<>>
    /\ dry_gap_hours = 6
    /\ i = 0
    /\ storms = <<>>
    /\ current_storm = None
    /\ last_rain_time = NoTime

\* a call of detect_storms on a chronologically ordered series of at most
\* MaxLen samples, before its first statement
Init ==
    /\ pc = "start"
    /\ timestamps \in {ts \in SeriesUpTo(TimePoints, MaxLen) : NonDecreasing(ts)}
    /\ rainfall_series \in [1..Len(timestamps) -> RainValues]
    /\ dry_gap_hours \in DryGaps
    /\ i = 0
    /\ storms = <<>>
    /\ current_storm = None
    /\ last_rain_time = NoTime
    /\ RagIdle
    /\ CalcIdle
    /\ Constructed
    /\ NoOtherCall

Next == Enter \/ Iterate \/ Return

Spec == Init /\ [][Next]_vars

-----------------------------------------------------------------------------
(* detect_storms statement by statement: the loop body of lines 61-71 in   *)
(* separate steps, for what holds between the statements of one iteration. *)
(* pc is "loop" at the head of the for loop (line 60) and names the line   *)
(* about to be executed inside the body.                                   *)

\* lines 60-61: the next pair of the zip; a value that is not rain-positive
\* ends the iteration
NextPair ==
    /\ pc = "loop"
    /\ i <= ZipLen
    /\ IF RainPositive(rainfall_series[i])
       THEN /\ pc' = "line62"
            /\ i' = i
       ELSE /\ pc' = "loop"
            /\ i' = i + 1
    /\ UNCHANGED <<rainfall_series, timestamps, dry_gap_hours, storms,
                   current_storm, last_rain_time>>
    /\ UNCHANGED <<rag_vars, calc_vars, risk_threshold, run_vars, conc_vars>>

\* lines 62 and 64: the if / elif on the accumulator and on the dry gap
TestOpen ==
    /\ pc = "line62"
    /\ pc' = IF current_storm = None
             THEN "line63"
             ELSE IF GapExceeded(timestamps[i], last_rain_time, dry_gap_hours)
             THEN "line65"
             ELSE "line68"
    /\ UNCHANGED storm_vars
    /\ UNCHANGED <<rag_vars, calc_vars, risk_threshold, run_vars, conc_vars>>

\* line 63: the first storm of a dry accumulator is opened
OpenFirst ==
    /\ pc = "line63"
    /\ current_storm' = NewStorm(storms, timestamps[i])
    /\ pc' = "line68"
    /\ UNCHANGED <<rainfall_series, timestamps, dry_gap_hours, i, storms,
                   last_rain_time>>
    /\ UNCHANGED <<rag_vars, calc_vars, risk_threshold, run_vars, conc_vars>>

\* line 65: the open storm is finalized and appended; current_storm still
\* names it
CloseOpen ==
    /\ pc = "line65"
    /\ storms' = Append(storms, finalize_storm(current_storm))
    /\ pc' = "line66"
    /\ UNCHANGED <<rainfall_series, timestamps, dry_gap_hours, i,
                   current_storm, last_rain_time>>
    /\ UNCHANGED <<rag_vars, calc_vars, risk_threshold, run_vars, conc_vars>>

\* line 66: the next storm is opened
OpenNext ==
    /\ pc = "line66"
    /\ current_storm' = NewStorm(storms, timestamps[i])
    /\ pc' = "line68"
    /\ UNCHANGED <<rainfall_series, timestamps, dry_gap_hours, i, storms,
                   last_rain_time>>
    /\ UNCHANGED <<rag_vars, calc_vars, risk_threshold, run_vars, conc_vars>>

\* lines 68-70: the value is accumulated
Fill ==
    /\ pc = "line68"
    /\ current_storm' = Accumulate(current_storm, timestamps[i], rainfall_series[i])
    /\ pc' = "line71"
    /\ UNCHANGED <<rainfall_series, timestamps, dry_gap_hours, i, storms,
                   last_rain_time>>
    /\ UNCHANGED <<rag_vars, calc_vars, risk_threshold, run_vars, conc_vars>>

\* line 71: last_rain_time = ts ends the iteration
RecordRain ==
    /\ pc = "line71"
    /\ last_rain_time' = timestamps[i]
    /\ i' = i + 1
    /\ pc' = "loop"
    /\ UNCHANGED <<rainfall_series, timestamps, dry_gap_hours, storms,
                   current_storm>>
    /\ UNCHANGED <<rag_vars, calc_vars, risk_threshold, run_vars, conc_vars>>

NextSteps ==
    \/ Enter
    \/ NextPair
    \/ TestOpen
    \/ OpenFirst
    \/ CloseOpen
    \/ OpenNext
    \/ Fill
    \/ RecordRain
    \/ Return

SpecSteps == Init /\ [][NextSteps]_vars

-----------------------------------------------------------------------------
(* The worked example: 15-minute samples 0, 3, 5, a run of n zeros, 4, 2. *)
(* The sample of value 5 is at 1800 s and the sample of value 4 at        *)
(* (n + 3) * 900 s, so the two are exactly six hours apart for n = 23 and *)
(* more than six hours apart for n >= 24.                                 *)

ExampleTimestamps(n) == [k \in 1..(n + 5) |-> (k - 1) * 900]

ExampleRainfall(n) ==
    <<0, 3, 5>> \o [k \in 1..n |-> 0] \o <<4, 2>>

InitExample ==
    /\ pc = "start"
    /\ \E n \in 23..(23 + MaxExtraZeros) :
          /\ timestamps = ExampleTimestamps(n)
          /\ rainfall_series = ExampleRainfall(n)
    /\ dry_gap_hours = 6
    /\ i = 0
    /\ storms = <<>>
    /\ current_storm = None
    /\ last_rain_time = NoTime
    /\ RagIdle
    /\ CalcIdle
    /\ Constructed
    /\ NoOtherCall

SpecExample == InitExample /\ [][Next]_vars

-----------------------------------------------------------------------------
(* SewerQAEngine.generate_rag_status *)

\* metrics.get(key, default)
Get(m, key, default) == IF key \in DOMAIN m THEN m[key] ELSE default

\* the dropout threshold taken as inclusive
DropoutFlag_Inclusive(m) == IF Get(m, "depth_dropout_pct", 0) >= 20 THEN 1 ELSE 0

\* line 43
DropoutFlag(m) == IF Get(m, "depth_dropout_pct", 0) > 20 THEN 1 ELSE 0

\* line 44 (flow_cv in hundredths: 0.05 is 5, the default 1.0 is 100)
FlatnessFlag(m) == IF Get(m, "flow_cv", 100) < 5 THEN 1 ELSE 0

\* line 45 (qh_correlation in hundredths: 0.3 is 30, the default 1.0 is 100)
CoherenceFlag(m) == IF Get(m, "qh_correlation", 100) < 30 THEN 1 ELSE 0

\* an absent completeness taken as 0
CompletenessFlag_DefaultZero(m) == IF Get(m, "completeness", 0) < 95 THEN 1 ELSE 0

\* line 46
CompletenessFlag(m) == IF Get(m, "completeness", 100) < 95 THEN 1 ELSE 0

\* a single flag still classified GOOD
RagBand_OneIsGood(flags) ==
    IF flags <= 1 THEN "GOOD"
    ELSE IF flags = 2 THEN "MODERATE"
    ELSE "BAD"

\* lines 48-50
RagBand(flags) ==
    IF flags = 0 THEN "GOOD"
    ELSE IF 1 <= flags /\ flags <= 2 THEN "MODERATE"
    ELSE "BAD"

\* lines 42-46: the value of flags after the four conditionals
CountFlags(m) ==
    DropoutFlag(m) + FlatnessFlag(m) + CoherenceFlag(m) + CompletenessFlag(m)

\* lines 41-50
generate_rag_status(m) == RagBand(CountFlags(m))

\* the keys generate_rag_status reads
RagKeys == {"depth_dropout_pct", "flow_cv", "qh_correlation", "completeness"}

\* values explored for each key: below, at and above its threshold
RagValues(key) ==
    CASE key = "depth_dropout_pct" -> {20, 21, 25}
      [] key = "flow_cv" -> {4, 5, 50}
      [] key = "qh_correlation" -> {29, 30, 50}
      [] key = "completeness" -> {94, 95, 99}

\* the metrics records explored: any subset of the keys present
MetricsRecords ==
    UNION {{m \in [D -> UNION {RagValues(k) : k \in D}] :
               \A k \in D : m[k] \in RagValues(k)} : D \in SUBSET RagKeys}

\* the field names of the MonitorMetrics record of the data model, which
\* differ from the keys read at lines 43, 44 and 46
MonitorMetricsFields ==
    {"dropout_pct", "diurnal_cv", "qh_correlation", "completeness_pct"}

\* records holding the four MonitorMetrics fields
MonitorMetricsRecords ==
    {m \in [MonitorMetricsFields -> {20, 25, 4, 50, 29, 94, 99}] :
        /\ m["dropout_pct"] \in {20, 25}
        /\ m["diurnal_cv"] \in {4, 50}
        /\ m["qh_correlation"] \in {29, 50}
        /\ m["completeness_pct"] \in {94, 99}}

\* one call of generate_rag_status
Classify ==
    /\ pc = "rag_start"
    /\ rag_status' = generate_rag_status(metrics)
    /\ pc' = "rag_done"
    /\ UNCHANGED metrics
    /\ UNCHANGED <<storm_vars, calc_vars, risk_threshold, run_vars, conc_vars>>

InitRAG ==
    /\ pc = "rag_start"
    /\ metrics \in MetricsRecords \cup MonitorMetricsRecords
    /\ rag_status = NoStatus
    /\ StormIdle
    /\ CalcIdle
    /\ Constructed
    /\ NoOtherCall

NextRAG == Classify

SpecRAG == InitRAG /\ [][NextRAG]_vars

-----------------------------------------------------------------------------
(* Floats, as exact values *)

Abs(x) == IF x < 0 THEN -x ELSE x

Sign(x) == IF x < 0 THEN -1 ELSE IF x = 0 THEN 0 ELSE 1

RECURSIVE GCD(_, _)
GCD(a, b) == IF b = 0 THEN a ELSE GCD(b, a % b)

\* the rational n / d (d # 0), in lowest terms with a positive denominator
Rat(n, d) ==
    LET g == GCD(Abs(n), Abs(d))
    IN  [kind |-> "num", num |-> (Sign(d) * n) \div g, den |-> Abs(d) \div g]

\* 0.0
Zero == Rat(0, 1)

\* float('nan')
NaN == [kind |-> "nan"]

\* float('inf') with a sign
Inf(sign) == [kind |-> "inf", sign |-> sign]

\* sign * sqrt(n / d) for n >= 0 and d > 0; 0.0 when n = 0
Root(sign, n, d) ==
    IF n = 0 THEN Zero ELSE [kind |-> "root", sign |-> sign, sq |-> Rat(n, d)]

\* x <= 0 for a float x that is a rational or NaN (a comparison with NaN is False)
LeqZero(x) == x.kind = "num" /\ x.num <= 0

RECURSIVE SumSq(_)
SumSq(s) == IF s = <<>> THEN 0 ELSE s[1] * s[1] + SumSq(Tail(s))

RECURSIVE SumProd(_, _)
SumProd(a, b) ==
    IF a = <<>> THEN 0 ELSE a[1] * b[1] + SumProd(Tail(a), Tail(b))

\* Series.mean(): NaN for the empty series
Mean(s) == IF Len(s) = 0 THEN NaN ELSE Rat(Sum(s), Len(s))

\* n * sum(x^2) - sum(x)^2 = n * sum((x - mean)^2) = n * (n - 1) * variance
VarNum(s) == Len(s) * SumSq(s) - Sum(s) * Sum(s)

\* Series.std(): the sample standard deviation (ddof = 1), NaN for fewer
\* than two samples
Std(s) ==
    IF Len(s) < 2 THEN NaN
    ELSE Root(1, VarNum(s), Len(s) * (Len(s) - 1))

\* sigma / mu for numpy floats: sigma is a Std, mu a Mean; division by
\* zero gives inf (nan for 0 / 0) and NaN propagates
FloatDiv(sigma, mu) ==
    IF sigma = NaN \/ mu = NaN THEN NaN
    ELSE IF mu.num = 0 THEN (IF sigma = Zero THEN NaN ELSE Inf(1))
    ELSE IF sigma = Zero THEN Zero
    ELSE Root(Sign(mu.num), sigma.sq.num * mu.den * mu.den,
              sigma.sq.den * mu.num * mu.num)

\* Series.corr(other): Pearson correlation over the inner join of the two
\* indexes (the first min(len) positions of two RangeIndexes); NaN when the
\* join is empty or a variance over the join is zero (0 / 0 in corrcoef)
Corr(a, b) ==
    LET m == Min(Len(a), Len(b))
        x == SubSeq(a, 1, m)
        y == SubSeq(b, 1, m)
        sxy == m * SumProd(x, y) - Sum(x) * Sum(y)
    IN  IF m = 0 THEN NaN
        ELSE IF VarNum(x) * VarNum(y) = 0 THEN NaN
        ELSE Root(Sign(sxy), sxy * sxy, VarNum(x) * VarNum(y))

-----------------------------------------------------------------------------
(* SewerQAEngine: the five calculators *)

\* completeness capped at 100
calculate_completeness_Clamped(actual_rows, expected_rows) ==
    IF expected_rows = 0 THEN Zero
    ELSE Rat(Min(actual_rows, expected_rows) * 100, expected_rows)

\* lines 16-18
calculate_completeness(actual_rows, expected_rows) ==
    IF expected_rows = 0 THEN Zero
    ELSE Rat(actual_rows * 100, expected_rows)

\* number of samples strictly below the threshold: (series < threshold).sum()
CountBelow(series, threshold) ==
    Cardinality({k \in 1..Len(series) : series[k] < threshold})

\* a sample equal to the threshold counted as a dropout
detect_dropouts_Inclusive(series, threshold) ==
    IF Len(series) = 0 THEN Zero
    ELSE Rat(Cardinality({k \in 1..Len(series) : series[k] <= threshold}) * 100,
             Len(series))

\* lines 20-24
detect_dropouts(series, threshold) ==
    IF Len(series) = 0 THEN Zero
    ELSE Rat(CountBelow(series, threshold) * 100, Len(series))

\* the guard on the mean taken as mu < 0
calculate_diurnal_flatness_StrictGuard(series) ==
    IF Mean(series).kind = "num" /\ Mean(series).num < 0 THEN Zero
    ELSE FloatDiv(Std(series), Mean(series))

\* lines 26-30
calculate_diurnal_flatness(series) ==
    IF LeqZero(Mean(series)) THEN Zero
    ELSE FloatDiv(Std(series), Mean(series))

\* lines 32-35
calculate_hydraulic_coherence(flow, depth) ==
    IF Len(flow) < 2 \/ Std(flow) = Zero \/ Std(depth) = Zero THEN Zero
    ELSE Corr(flow, depth)

\* a zero upstream with a zero downstream reported as 100
calculate_volume_imbalance_ZeroIs100(upstream_vol, downstream_vol) ==
    IF upstream_vol = 0
    THEN (IF downstream_vol >= 0 THEN Rat(100, 1) ELSE Zero)
    ELSE Rat((downstream_vol - upstream_vol) * 100, upstream_vol)

\* lines 37-39
calculate_volume_imbalance(upstream_vol, downstream_vol) ==
    IF upstream_vol = 0
    THEN (IF downstream_vol > 0 THEN Rat(100, 1) ELSE Zero)
    ELSE Rat((downstream_vol - upstream_vol) * 100, upstream_vol)

\* the series explored
SampleSeries == SeriesUpTo(SampleValues, MaxSamples)

CallCompleteness ==
    /\ pc = "calc_start"
    /\ calc_name = "calculate_completeness"
    /\ calc_result' = calculate_completeness(calc_args.actual_rows,
                                             calc_args.expected_rows)
    /\ pc' = "calc_done"
    /\ UNCHANGED <<calc_name, calc_args, storm_vars, rag_vars,
                   risk_threshold, run_vars, conc_vars>>

CallDropouts ==
    /\ pc = "calc_start"
    /\ calc_name = "detect_dropouts"
    /\ calc_result' = detect_dropouts(calc_args.series, calc_args.threshold)
    /\ pc' = "calc_done"
    /\ UNCHANGED <<calc_name, calc_args, storm_vars, rag_vars,
                   risk_threshold, run_vars, conc_vars>>

CallFlatness ==
    /\ pc = "calc_start"
    /\ calc_name = "calculate_diurnal_flatness"
    /\ calc_result' = calculate_diurnal_flatness(calc_args.series)
    /\ pc' = "calc_done"
    /\ UNCHANGED <<calc_name, calc_args, storm_vars, rag_vars,
                   risk_threshold, run_vars, conc_vars>>

CallCoherence ==
    /\ pc = "calc_start"
    /\ calc_name = "calculate_hydraulic_coherence"
    /\ calc_result' = calculate_hydraulic_coherence(calc_args.flow,
                                                    calc_args.depth)
    /\ pc' = "calc_done"
    /\ UNCHANGED <<calc_name, calc_args, storm_vars, rag_vars,
                   risk_threshold, run_vars, conc_vars>>

CallImbalance ==
    /\ pc = "calc_start"
    /\ calc_name = "calculate_volume_imbalance"
    /\ calc_result' = calculate_volume_imbalance(calc_args.upstream_vol,
                                                 calc_args.downstream_vol)
    /\ pc' = "calc_done"
    /\ UNCHANGED <<calc_name, calc_args, storm_vars, rag_vars,
                   risk_threshold, run_vars, conc_vars>>

\* one call of one calculator, before its first statement
InitCalc ==
    /\ pc = "calc_start"
    /\ \/ /\ calc_name = "calculate_completeness"
          /\ calc_args \in [actual_rows : RowCounts, expected_rows : RowCounts]
       \/ /\ calc_name = "detect_dropouts"
          /\ calc_args \in [series : SampleSeries, threshold : Thresholds]
       \/ /\ calc_name = "calculate_diurnal_flatness"
          /\ calc_args \in [series : SampleSeries]
       \/ /\ calc_name = "calculate_hydraulic_coherence"
          /\ calc_args \in [flow : SampleSeries, depth : SampleSeries]
       \/ /\ calc_name = "calculate_volume_imbalance"
          /\ calc_args \in [upstream_vol : Volumes, downstream_vol : Volumes]
    /\ calc_result = NoStatus
    /\ StormIdle
    /\ RagIdle
    /\ Constructed
    /\ NoOtherCall

NextCalc ==
    \/ CallCompleteness
    \/ CallDropouts
    \/ CallFlatness
    \/ CallCoherence
    \/ CallImbalance

SpecCalc == InitCalc /\ [][NextCalc]_vars

-----------------------------------------------------------------------------
(* The same call made twice in a row on the same engine object.  The      *)
(* second call receives the same argument objects and starts from          *)
(* whatever the first call left in the variables; only its own statements  *)
(* reset them.                                                             *)

\* the first call has returned: remember its result and call again
CallAgain ==
    /\ run = 1
    /\ pc \in {"done", "rag_done", "calc_done"}
    /\ first_result' = CASE pc = "done" -> storms
                         [] pc = "rag_done" -> rag_status
                         [] pc = "calc_done" -> calc_result
    /\ pc' = CASE pc = "done" -> "start"
               [] pc = "rag_done" -> "rag_start"
               [] pc = "calc_done" -> "calc_start"
    /\ run' = 2
    /\ UNCHANGED <<storm_vars, rag_vars, calc_vars, risk_threshold, conc_vars>>

InitTwice == Init \/ InitRAG \/ InitCalc

NextTwice == Next \/ NextRAG \/ NextCalc \/ CallAgain

SpecTwice == InitTwice /\ [][NextTwice]_vars

-----------------------------------------------------------------------------
(* Two calls on the same engine objects, executed concurrently.  The first *)
(* call runs in the variables of the specifications above; the second, for *)
(* another monitor or rain gauge, runs in other_call, which holds its own  *)
(* arguments and locals as a Python frame does.  The steps of the two      *)
(* interleave in any order.  Neither engine class has an attribute other   *)
(* than risk_threshold, so the frames are all the state a call writes.     *)

\* longest series of the first call when a second one runs beside it
MaxConcLen == 2

\* a detect_storms call before its first statement
StormCall(ts, rain, gap) ==
    [fn |-> "detect_storms",
     pc |-> "start",
     args |-> [timestamps |-> ts, rainfall_series |-> rain, dry_gap_hours |-> gap],
     locals |-> [i |-> 0, storms |-> <<>>, current_storm |-> None,
                 last_rain_time |-> NoTime],
     result |-> NoStatus]

\* a call of generate_rag_status or of a calculator before its first
\* statement
PureCall(fn, args) ==
    [fn |-> fn, pc |-> "start", args |-> args, locals |-> None,
     result |-> NoStatus]

\* the series of the other rain gauge: three storms' worth of rain, two
\* samples sharing a timestamp, and no sample at all
OtherGaugeSeries ==
    {[ts |-> <<90, 21690, 43291>>, rain |-> <<3, 5, 6>>],
     [ts |-> <<0, 0>>, rain |-> <<6, 0>>],
     [ts |-> <<>>, rain |-> <<>>]}

\* the calls that may run beside the first one
OtherCalls ==
    {StormCall(s.ts, s.rain, gap) : s \in OtherGaugeSeries, gap \in {0, 6}}
    \cup {PureCall("generate_rag_status", [metrics |-> m]) :
             m \in {<<>>, [depth_dropout_pct |-> 21, completeness |-> 94]}}
    \cup {PureCall("calculate_completeness", a) :
             a \in [actual_rows : RowCounts, expected_rows : RowCounts]}

\* the second call's loop appending to the first call's list, as if storms
\* were an attribute of the shared StormEventAnalyzer
OtherIterate_SharedStorms ==
    /\ other_call # None
    /\ other_call.fn = "detect_storms"
    /\ other_call.pc = "loop"
    /\ other_call.locals.i <=
           Min(Len(other_call.args.timestamps), Len(other_call.args.rainfall_series))
    /\ LET st == LoopBody([storms |-> storms,
                           current_storm |-> other_call.locals.current_storm,
                           last_rain_time |-> other_call.locals.last_rain_time],
                          other_call.args.timestamps[other_call.locals.i],
                          other_call.args.rainfall_series[other_call.locals.i],
                          other_call.args.dry_gap_hours)
       IN  /\ storms' = st.storms
           /\ other_call' =
                  [other_call EXCEPT
                      !.locals = [i |-> @.i + 1,
                                  storms |-> st.storms,
                                  current_storm |-> st.current_storm,
                                  last_rain_time |-> st.last_rain_time]]
    /\ UNCHANGED <<pc, rainfall_series, timestamps, dry_gap_hours, i,
                   current_storm, last_rain_time>>
    /\ UNCHANGED <<rag_vars, calc_vars, risk_threshold, run_vars>>

\* lines 54-58 in the second call
OtherEnter ==
    /\ other_call # None
    /\ other_call.fn = "detect_storms"
    /\ other_call.pc = "start"
    /\ other_call' =
           IF other_call.args.rainfall_series = <<>>
           THEN [other_call EXCEPT !.pc = "done",
                                   !.locals.storms = <<>>,
                                   !.result = <<>>]
           ELSE [other_call EXCEPT
                    !.pc = "loop",
                    !.locals = [i |-> 1, storms |-> <<>>,
                                current_storm |-> None,
                                last_rain_time |-> NoTime]]
    /\ UNCHANGED <<pc, storm_vars, rag_vars, calc_vars, risk_threshold, run_vars>>

\* lines 60-71 in the second call: one iteration on its own locals
OtherIterate ==
    /\ other_call # None
    /\ other_call.fn = "detect_storms"
    /\ other_call.pc = "loop"
    /\ other_call.locals.i <=
           Min(Len(other_call.args.timestamps), Len(other_call.args.rainfall_series))
    /\ LET st == LoopBody([storms |-> other_call.locals.storms,
                           current_storm |-> other_call.locals.current_storm,
                           last_rain_time |-> other_call.locals.last_rain_time],
                          other_call.args.timestamps[other_call.locals.i],
                          other_call.args.rainfall_series[other_call.locals.i],
                          other_call.args.dry_gap_hours)
       IN  other_call' =
               [other_call EXCEPT
                   !.locals = [i |-> @.i + 1,
                               storms |-> st.storms,
                               current_storm |-> st.current_storm,
                               last_rain_time |-> st.last_rain_time]]
    /\ UNCHANGED <<pc, storm_vars, rag_vars, calc_vars, risk_threshold, run_vars>>

\* lines 73-74 in the second call
OtherReturn ==
    /\ other_call # None
    /\ other_call.fn = "detect_storms"
    /\ other_call.pc = "loop"
    /\ other_call.locals.i >
           Min(Len(other_call.args.timestamps), Len(other_call.args.rainfall_series))
    /\ other_call' =
           [other_call EXCEPT
               !.pc = "done",
               !.result = PostLoop(other_call.locals.storms,
                                   other_call.locals.current_storm)]
    /\ UNCHANGED <<pc, storm_vars, rag_vars, calc_vars, risk_threshold, run_vars>>

\* lines 41-50 or 16-18 in the second call: a function of its arguments
OtherPure ==
    /\ other_call # None
    /\ other_call.fn \in {"generate_rag_status", "calculate_completeness"}
    /\ other_call.pc = "start"
    /\ other_call' =
           [other_call EXCEPT
               !.pc = "done",
               !.result =
                   IF other_call.fn = "generate_rag_status"
                   THEN generate_rag_status(other_call.args.metrics)
                   ELSE calculate_completeness(other_call.args.actual_rows,
                                               other_call.args.expected_rows)]
    /\ UNCHANGED <<pc, storm_vars, rag_vars, calc_vars, risk_threshold, run_vars>>

\* the first call is a detect_storms run or a generate_rag_status call;
\* the second is one of OtherCalls
InitConc ==
    /\ \/ /\ pc = "start"
          /\ timestamps \in {ts \in SeriesUpTo(TimePoints, MaxConcLen) :
                                NonDecreasing(ts)}
          /\ rainfall_series \in [1..Len(timestamps) -> RainValues]
          /\ dry_gap_hours \in DryGaps
          /\ i = 0
          /\ storms = <<>>
          /\ current_storm = None
          /\ last_rain_time = NoTime
          /\ RagIdle
       \/ /\ pc = "rag_start"
          /\ metrics \in MonitorMetricsRecords
          /\ rag_status = NoStatus
          /\ StormIdle
    /\ CalcIdle
    /\ Constructed
    /\ other_call \in OtherCalls

NextConc ==
    \/ Next
    \/ NextRAG
    \/ OtherEnter
    \/ OtherIterate
    \/ OtherReturn
    \/ OtherPure

SpecConc == InitConc /\ [][NextConc]_vars

-----------------------------------------------------------------------------
(* The segmentation algorithm as spec.md section 4.3 words it, with the    *)
(* explicit two-variant accumulator of its section 9: the second machine   *)
(* of the refinement between the reference loop and the specification.     *)

\* no storm is open
Closed == [tag |-> "Closed"]

\* step 3, first branch: id = count of finalized storms so far + 1,
\* start_time = end_time = this timestamp, peak_intensity = this value,
\* accumulator = [value]
Open(finalized, ts, value) ==
    [tag |-> "Open", id |-> Len(finalized) + 1, start_time |-> ts,
     end_time |-> ts, peak_intensity |-> value, accumulator |-> <<value>>]

\* step 3, third branch: append value, set end_time, raise the peak
Extend(storm, ts, value) ==
    [storm EXCEPT !.accumulator = Append(@, value),
                  !.end_time = ts,
                  !.peak_intensity = Max(@, value)]

\* step 4: depth_mm, duration_minutes (the minutes between start_time and
\* end_time, an exact quotient) and significance
Finalize(storm) ==
    [id |-> storm.id,
     start_time |-> storm.start_time,
     end_time |-> storm.end_time,
     depth_mm |-> Sum(storm.accumulator),
     peak_intensity |-> storm.peak_intensity,
     duration_minutes |-> Rat(storm.end_time - storm.start_time, 60),
     significance |-> IF Sum(storm.accumulator) > 5 \/ storm.peak_intensity >= 6
                      THEN "Significant" ELSE "Minor"]

\* steps 2 and 3 on one sample: st holds the finalized storms, the
\* accumulator and the timestamp of the last rain-positive sample
SegmenterStep(st, ts, value, gap) ==
    IF value <= 0
    THEN st
    ELSE IF st.storm = Closed
    THEN [finalized |-> st.finalized,
          storm |-> Open(st.finalized, ts, value),
          last |-> ts]
    ELSE IF (ts - st.last) > gap * 3600
    THEN LET finalized == Append(st.finalized, Finalize(st.storm))
         IN  [finalized |-> finalized,
              storm |-> Open(finalized, ts, value),
              last |-> ts]
    ELSE [finalized |-> st.finalized,
          storm |-> Extend(st.storm, ts, value),
          last |-> ts]

\* the state of the forward pass after the first n samples
RECURSIVE SegmenterRun(_, _, _, _)
SegmenterRun(ts, rain, gap, n) ==
    IF n = 0
    THEN [finalized |-> <<>>, storm |-> Closed, last |-> NoTime]
    ELSE SegmenterStep(SegmenterRun(ts, rain, gap, n - 1), ts[n], rain[n], gap)

\* step 5: the storm still open after the scan is finalized
StormSegmenter(ts, rain, gap) ==
    LET st == SegmenterRun(ts, rain, gap, Min(Len(ts), Len(rain)))
    IN  IF st.storm # Closed
        THEN Append(st.finalized, Finalize(st.storm))
        ELSE st.finalized

-----------------------------------------------------------------------------
(* What the claims speak of: the rain-positive samples of the input series *)
(* and the storms of the returned list.                                    *)

\* the call has returned; storms is the returned list
Returned == pc = "done"

\* indices of the rain-positive samples, in series order
PositiveIdx ==
    SelectSeq([k \in 1..Len(rainfall_series) |-> k],
              LAMBDA k : rainfall_series[k] > 0)

\* seconds from the earlier timestamp a to the later timestamp b exceed
\* dry_gap_hours hours
MoreThanDryGap(a, b) == (b - a) > dry_gap_hours * 3600

StormIdx == 1..Len(storms)

\* The bursts of the series: the rain-positive samples in series order,
\* cut before every sample that follows the previous rain-positive sample
\* by more than dry_gap_hours.  BurstStarts holds the positions in
\* PositiveIdx at which a burst begins.
BurstStarts ==
    {j \in 1..Len(PositiveIdx) :
        \/ j = 1
        \/ MoreThanDryGap(timestamps[PositiveIdx[j - 1]],
                          timestamps[PositiveIdx[j]])}

NumBursts == Cardinality(BurstStarts)

\* position in PositiveIdx of the first and of the last sample of burst m
BurstFirst(m) ==
    CHOOSE j \in BurstStarts : Cardinality({x \in BurstStarts : x <= j}) = m

BurstLast(m) ==
    IF m = NumBursts THEN Len(PositiveIdx) ELSE BurstFirst(m + 1) - 1

\* the rain values of burst m, in series order
BurstValues(m) ==
    [j \in 1..(BurstLast(m) - BurstFirst(m) + 1) |->
        rainfall_series[PositiveIdx[BurstFirst(m) + j - 1]]]

MaxOf(seq) ==
    CHOOSE v \in {seq[j] : j \in 1..Len(seq)} :
        \A j \in 1..Len(seq) : v >= seq[j]


-----------------------------------------------------------------------------
\* C1: a storm still open at the end of the series is finalized and is the
\* last element of the returned list; whenever the series holds a
\* rain-positive sample, the returned list is non-empty and its last storm
\* ends at the last rain-positive sample.
C1_OpenStormReturned ==
    Returned =>
        /\ current_storm # None =>
              /\ storms # <<>>
              /\ storms[Len(storms)].id = current_storm.id
              /\ storms[Len(storms)].start_time = current_storm.start_time
              /\ storms[Len(storms)].end_time = current_storm.end_time
              /\ storms[Len(storms)].depth_mm = Sum(current_storm.data)
        /\ PositiveIdx # <<>> =>
              /\ storms # <<>>
              /\ storms[Len(storms)].end_time =
                     timestamps[PositiveIdx[Len(PositiveIdx)]]

\* C1 witness: the call returned with a storm open after the loop and an
\* earlier storm already finalized inside the loop.
C1_Witness ==
    /\ Returned
    /\ current_storm # None
    /\ Len(storms) = 2
    /\ storms[2].id = current_storm.id

\* C2: any two consecutive returned storms are more than dry_gap_hours
\* apart, from the end_time of the earlier to the start_time of the later.
C2_StormsSeparated ==
    Returned =>
        \A k \in StormIdx \ {Len(storms)} :
            MoreThanDryGap(storms[k].end_time, storms[k + 1].start_time)

\* C2 witness: two storms returned for the default dry gap of six hours
\* from a series that also holds two rain-positive samples exactly six
\* hours apart.
C2_Witness ==
    /\ Returned
    /\ dry_gap_hours = 6
    /\ Len(storms) = 2
    /\ storms[1].end_time - storms[1].start_time = 6 * 3600
\* C3 (as amended): the storms carry ids 1, 2, ..., n in list order, the
\* open storm's id is the number of finalized storms plus one, and for
\* non-decreasing timestamps the start times are in non-decreasing order,
\* strictly increasing when dry_gap_hours >= 0.
C3_IdsAndOrder ==
    /\ \A k \in StormIdx : storms[k].id = k
    /\ (pc = "loop" /\ current_storm # None) => current_storm.id = Len(storms) + 1
    /\ NonDecreasing(timestamps) =>
          \A k \in StormIdx \ {Len(storms)} :
              /\ storms[k].start_time <= storms[k + 1].start_time
              /\ dry_gap_hours >= 0 =>
                     storms[k].start_time < storms[k + 1].start_time

\* C3 as stated: ids 1..n in list order and, for non-decreasing
\* timestamps, strictly increasing start times for every dry_gap_hours.
C3_Original ==
    Returned =>
        /\ \A k \in StormIdx : storms[k].id = k
        /\ NonDecreasing(timestamps) =>
              \A k \in StormIdx \ {Len(storms)} :
                  storms[k].start_time < storms[k + 1].start_time

\* C3 witness: three storms returned, numbered 1, 2, 3, with a
\* non-negative dry gap.
C3_Witness ==
    /\ Returned
    /\ dry_gap_hours >= 0
    /\ Len(storms) = 3
    /\ storms[3].id = 3
    /\ storms[1].start_time < storms[2].start_time

\* C5: every finalized storm is Significant iff depth_mm > 5 or
\* peak_intensity >= 6 and Minor otherwise; a storm of depth exactly 5 and
\* peak exactly 5 is Minor.
C5_SignificanceRule ==
    \A k \in StormIdx :
        /\ storms[k].status \in {"Significant", "Minor"}
        /\ storms[k].status = "Significant" <=>
               (storms[k].depth_mm > 5 \/ storms[k].peak_intensity >= 6)
        /\ (storms[k].depth_mm = 5 /\ storms[k].peak_intensity = 5) =>
               storms[k].status = "Minor"

\* C5 witness: a returned list holding a Minor storm of depth 5 and peak 5
\* and a Significant storm.
C5_Witness ==
    /\ Returned
    /\ \E k \in StormIdx :
          /\ storms[k].depth_mm = 5
          /\ storms[k].peak_intensity = 5
          /\ storms[k].status = "Minor"
    /\ \E k \in StormIdx : storms[k].status = "Significant"

\* C6: the empty series and every series whose values are all <= 0 return
\* the empty list.
C6_NoRainNoStorm ==
    Returned =>
        ((\A k \in 1..Len(rainfall_series) : rainfall_series[k] <= 0) =>
             storms = <<>>)

\* C6 witness: a returned call on a series of zero and negative values.
C6_Witness ==
    /\ Returned
    /\ Len(rainfall_series) >= 2
    /\ \A k \in 1..Len(rainfall_series) : rainfall_series[k] <= 0
    /\ \E k \in 1..Len(rainfall_series) : rainfall_series[k] = 0
    /\ \E k \in 1..Len(rainfall_series) : rainfall_series[k] < 0
    /\ storms = <<>>

\* C7: a series with exactly one rain-positive sample returns exactly one
\* storm: id 1, start_time = end_time = the sample's timestamp, duration 0,
\* depth_mm = peak_intensity = the sample's value.
C7_SingleSampleStorm ==
    (Returned /\ Len(PositiveIdx) = 1) =>
        /\ Len(storms) = 1
        /\ storms[1].id = 1
        /\ storms[1].start_time = timestamps[PositiveIdx[1]]
        /\ storms[1].end_time = timestamps[PositiveIdx[1]]
        /\ storms[1].duration_mins = 0
        /\ storms[1].depth_mm = rainfall_series[PositiveIdx[1]]
        /\ storms[1].peak_intensity = rainfall_series[PositiveIdx[1]]

\* C7 witness: one rain-positive sample between two non-positive ones.
C7_Witness ==
    /\ Returned
    /\ Len(rainfall_series) = 3
    /\ PositiveIdx = <<2>>
    /\ Len(storms) = 1
    /\ storms[1].depth_mm = rainfall_series[2]
\* C8: the m-th returned storm is the m-th burst: start_time and end_time
\* are the timestamps of the burst's first and last rain-positive sample,
\* depth_mm is the sum and peak_intensity the maximum of its values.
C8_StormIsItsBurst ==
    Returned =>
        /\ Len(storms) = NumBursts
        /\ \A m \in StormIdx :
              /\ storms[m].start_time = timestamps[PositiveIdx[BurstFirst(m)]]
              /\ storms[m].end_time = timestamps[PositiveIdx[BurstLast(m)]]
              /\ storms[m].depth_mm = Sum(BurstValues(m))
              /\ storms[m].peak_intensity = MaxOf(BurstValues(m))

\* C8 witness: two storms returned, the first a burst of two samples at
\* different times whose larger value comes first.
C8_Witness ==
    /\ Returned
    /\ Len(storms) = 2
    /\ storms[1].start_time < storms[1].end_time
    /\ Len(BurstValues(1)) = 2
    /\ BurstValues(1)[1] > BurstValues(1)[2]
    /\ storms[1].peak_intensity = BurstValues(1)[1]

\* C9 (as amended): for non-decreasing timestamps the duration field is
\* the whole number of elapsed minutes between start_time and end_time,
\* the elapsed time truncated to the minute.
C9_DurationWholeMinutes ==
    \A k \in StormIdx :
        (storms[k].end_time - storms[k].start_time >= 0) =>
            /\ storms[k].duration_mins * 60 <=
                   storms[k].end_time - storms[k].start_time
            /\ storms[k].end_time - storms[k].start_time <
                   (storms[k].duration_mins + 1) * 60

\* C9 as stated: the duration field equals the elapsed time between
\* start_time and end_time, for timestamps of any granularity.
C9_Original ==
    \A k \in StormIdx :
        storms[k].duration_mins * 60 = storms[k].end_time - storms[k].start_time

\* C9 witness: a returned storm spanning 90 seconds, reported as 1 minute.
C9_Witness ==
    /\ Returned
    /\ \E k \in StormIdx :
          /\ storms[k].end_time - storms[k].start_time = 90
          /\ storms[k].duration_mins = 1
\* C4: in the worked example, when the sample of value 5 and the sample of
\* value 4 are more than six hours apart, exactly two storms are returned:
\* storm 1 of depth 8 and peak 5, storm 2 of depth 6 and peak 4, both
\* Significant.
C4_WorkedExample ==
    (/\ Returned
     /\ dry_gap_hours = 6
     /\ MoreThanDryGap(timestamps[3], timestamps[Len(timestamps) - 1])) =>
        /\ Len(storms) = 2
        /\ storms[1].id = 1
        /\ storms[1].depth_mm = 8
        /\ storms[1].peak_intensity = 5
        /\ storms[1].status = "Significant"
        /\ storms[2].id = 2
        /\ storms[2].depth_mm = 6
        /\ storms[2].peak_intensity = 4
        /\ storms[2].status = "Significant"

\* C4 witness: the example with 24 zero samples (the two bursts six hours
\* and a quarter apart) has returned its two storms.
C4_Witness ==
    /\ Returned
    /\ rainfall_series = ExampleRainfall(24)
    /\ timestamps[Len(timestamps) - 1] - timestamps[3] = 6 * 3600 + 900
    /\ Len(storms) = 2
    /\ storms[1].end_time = 1800
    /\ storms[2].start_time = 24300

\* the number of flags the four rules raise on a record holding all four
\* fields, counted as a set of rule names (no order of evaluation)
RaisedFlags ==
    {r \in {"dropout", "flatness", "coherence", "completeness"} :
        \/ r = "dropout" /\ metrics["depth_dropout_pct"] > 20
        \/ r = "flatness" /\ metrics["flow_cv"] < 5
        \/ r = "coherence" /\ metrics["qh_correlation"] < 30
        \/ r = "completeness" /\ metrics["completeness"] < 95}

\* C10: on a record holding the four fields, generate_rag_status returns
\* GOOD for 0 raised flags, MODERATE for 1 or 2 and BAD for 3 or 4, the
\* flags being dropout > 20, cv < 0.05, correlation < 0.3 and
\* completeness < 95, all strict.
C10_RagBands ==
    (pc = "rag_done" /\ DOMAIN metrics = RagKeys) =>
        /\ Cardinality(RaisedFlags) = 0 => rag_status = "GOOD"
        /\ Cardinality(RaisedFlags) \in {1, 2} => rag_status = "MODERATE"
        /\ Cardinality(RaisedFlags) \in {3, 4} => rag_status = "BAD"

\* C10 witness: every value on its threshold raises no flag and the
\* record is classified GOOD.
C10_Witness ==
    /\ pc = "rag_done"
    /\ DOMAIN metrics = RagKeys
    /\ metrics["depth_dropout_pct"] = 20
    /\ metrics["flow_cv"] = 5
    /\ metrics["qh_correlation"] = 30
    /\ metrics["completeness"] = 95
    /\ rag_status = "GOOD"
\* the band of a flag count, as the classification table gives it
BandOf(n) ==
    CASE n = 0 -> "GOOD"
      [] n \in {1, 2} -> "MODERATE"
      [] n >= 3 -> "BAD"

\* the rules raised by the fields the record holds under the keys read;
\* a rule whose field is absent is not raised
RaisedByPresent ==
    {r \in {"dropout", "flatness", "coherence", "completeness"} :
        \/ /\ r = "dropout"
           /\ "depth_dropout_pct" \in DOMAIN metrics
           /\ metrics["depth_dropout_pct"] > 20
        \/ /\ r = "flatness"
           /\ "flow_cv" \in DOMAIN metrics
           /\ metrics["flow_cv"] < 5
        \/ /\ r = "coherence"
           /\ "qh_correlation" \in DOMAIN metrics
           /\ metrics["qh_correlation"] < 30
        \/ /\ r = "completeness"
           /\ "completeness" \in DOMAIN metrics
           /\ metrics["completeness"] < 95}

\* the record m with the field k removed
WithoutField(m, k) == [f \in DOMAIN m \ {k} |-> m[f]]

\* C11: an absent field never raises a flag: the status is the band of the
\* flags raised by the fields present, removing a field never increases
\* the flag count, and the empty record classifies GOOD.
C11_AbsentFieldsInnocent ==
    pc = "rag_done" =>
        /\ rag_status = BandOf(Cardinality(RaisedByPresent))
        /\ \A k \in DOMAIN metrics :
              CountFlags(WithoutField(metrics, k)) <= CountFlags(metrics)
        /\ DOMAIN metrics = {} => rag_status = "GOOD"

\* C11 witness: a record holding only a low qh_correlation is MODERATE:
\* the three absent fields raise nothing.
C11_Witness ==
    /\ pc = "rag_done"
    /\ DOMAIN metrics = {"qh_correlation"}
    /\ metrics["qh_correlation"] = 29
    /\ rag_status = "MODERATE"

\* the record of C12 under the MonitorMetrics field names
C12_MonitorMetricsRecord ==
    [dropout_pct |-> 25, diurnal_cv |-> 50, qh_correlation |-> 50,
     completeness_pct |-> 99]

\* the same values under the keys generate_rag_status reads
C12_ReadKeysRecord ==
    [depth_dropout_pct |-> 25, flow_cv |-> 50, qh_correlation |-> 50,
     completeness |-> 99]

CalcReturned(name) == pc = "calc_done" /\ calc_name = name

\* the series has at least two samples, all equal
ZeroVariance(s) == Len(s) >= 2 /\ \A j, k \in 1..Len(s) : s[j] = s[k]

\* C13: calculate_hydraulic_coherence returns 0.0 whenever either series
\* has fewer than 2 samples or zero variance.
C13_CoherenceUndefinedIsZero ==
    (/\ CalcReturned("calculate_hydraulic_coherence")
     /\ \/ Len(calc_args.flow) < 2
        \/ Len(calc_args.depth) < 2
        \/ ZeroVariance(calc_args.flow)
        \/ ZeroVariance(calc_args.depth)) =>
        calc_result = Zero

\* C14: calculate_hydraulic_coherence returns 0.0 for every pair of series
\* of different lengths.
C14_MismatchedLengthsIsZero ==
    (/\ CalcReturned("calculate_hydraulic_coherence")
     /\ Len(calc_args.flow) # Len(calc_args.depth)) =>
        calc_result = Zero

\* C15: detect_dropouts, calculate_diurnal_flatness and
\* calculate_hydraulic_coherence return 0.0, not NaN, on an empty series
\* (for the coherence: on two empty series).
C15_EmptySeriesIsZero ==
    /\ (CalcReturned("detect_dropouts") /\ calc_args.series = <<>>) =>
           calc_result = Zero
    /\ (CalcReturned("calculate_diurnal_flatness") /\ calc_args.series = <<>>) =>
           calc_result = Zero
    /\ (/\ CalcReturned("calculate_hydraulic_coherence")
        /\ calc_args.flow = <<>>
        /\ calc_args.depth = <<>>) =>
           calc_result = Zero

\* the sum of the squared deviations from the mean, times n^2
RECURSIVE SqDev(_, _, _)
SqDev(s, n, total) ==
    IF s = <<>> THEN 0
    ELSE (n * s[1] - total) * (n * s[1] - total) + SqDev(Tail(s), n, total)

\* C16: calculate_diurnal_flatness returns 0.0 for a series whose mean is
\* <= 0; for a positive mean it returns stddev / mean, stddev being the
\* sample standard deviation (a non-negative value whose square is
\* variance / mean^2 for two samples or more, NaN for a single sample);
\* it never returns a negative or infinite value.
C16_FlatnessGuarded ==
    CalcReturned("calculate_diurnal_flatness") =>
        LET s == calc_args.series
            n == Len(s)
        IN  /\ (n >= 1 /\ Sum(s) <= 0) => calc_result = Zero
            /\ (n >= 2 /\ Sum(s) > 0) =>
                  IF SqDev(s, n, Sum(s)) = 0
                  THEN calc_result = Zero
                  ELSE /\ calc_result.kind = "root"
                       /\ calc_result.sign = 1
                       /\ calc_result.sq.num * ((n - 1) * Sum(s) * Sum(s)) =
                              calc_result.sq.den * SqDev(s, n, Sum(s))
            /\ (n = 1 /\ Sum(s) > 0) => calc_result = NaN
            /\ calc_result.kind # "inf"
            /\ calc_result.kind = "root" => calc_result.sign = 1
            /\ calc_result.kind = "num" => calc_result.num >= 0

\* C16 witness: a series of mean zero and non-zero deviation returned 0.0
\* (the guard alone keeps the division by a zero mean away).
C16_Witness ==
    /\ CalcReturned("calculate_diurnal_flatness")
    /\ calc_args.series = <<-5, 5>>
    /\ calc_result = Zero

\* C17: calculate_completeness returns 0.0 when expected is 0 and
\* actual / expected * 100 otherwise, unclamped: above 100 whenever
\* actual > expected > 0, 200 for (100, 50), 0 for (0, 0).
C17_CompletenessUnclamped ==
    CalcReturned("calculate_completeness") =>
        LET a == calc_args.actual_rows
            e == calc_args.expected_rows
        IN  /\ calc_result.kind = "num"
            /\ e = 0 => calc_result = Zero
            /\ e # 0 => calc_result.num * e = a * 100 * calc_result.den
            /\ (a > e /\ e > 0) => calc_result.num > 100 * calc_result.den
            /\ (a = 100 /\ e = 50) => calc_result = [kind |-> "num", num |-> 200, den |-> 1]
            /\ (a = 0 /\ e = 0) => calc_result = Zero

\* C17 witness: calculate_completeness(100, 50) returned 200.
C17_Witness ==
    /\ CalcReturned("calculate_completeness")
    /\ calc_args.actual_rows = 100
    /\ calc_args.expected_rows = 50
    /\ calc_result.num = 200
    /\ calc_result.den = 1

\* C18: calculate_volume_imbalance returns (downstream - upstream) /
\* upstream * 100 when upstream # 0; when upstream = 0 it returns 100 if
\* downstream > 0 and 0 otherwise.
C18_VolumeImbalance ==
    CalcReturned("calculate_volume_imbalance") =>
        LET u == calc_args.upstream_vol
            d == calc_args.downstream_vol
        IN  /\ calc_result.kind = "num"
            /\ u # 0 => calc_result.num * u = (d - u) * 100 * calc_result.den
            /\ (u = 0 /\ d > 0) => calc_result = [kind |-> "num", num |-> 100, den |-> 1]
            /\ (u = 0 /\ d <= 0) => calc_result = Zero

\* C18 witness: calculate_volume_imbalance(0, 0) returned 0.
C18_Witness ==
    /\ CalcReturned("calculate_volume_imbalance")
    /\ calc_args.upstream_vol = 0
    /\ calc_args.downstream_vol = 0
    /\ calc_result = Zero

\* C19: detect_dropouts returns 100 times the fraction of samples strictly
\* below the threshold, 0.0 for an empty series, and a value between 0 and
\* 100.
C19_DropoutFraction ==
    CalcReturned("detect_dropouts") =>
        LET s == calc_args.series
            below == {k \in 1..Len(s) : s[k] < calc_args.threshold}
        IN  /\ calc_result.kind = "num"
            /\ s = <<>> => calc_result = Zero
            /\ s # <<>> =>
                  calc_result.num * Len(s) =
                      100 * Cardinality(below) * calc_result.den
            /\ 0 <= calc_result.num
            /\ calc_result.num <= 100 * calc_result.den

\* C19 witness: of a sample below the threshold and a sample equal to it,
\* only the first is a dropout: 50 percent.
C19_Witness ==
    /\ CalcReturned("detect_dropouts")
    /\ calc_args.series = <<0, 5>>
    /\ calc_args.threshold = 5
    /\ calc_result = [kind |-> "num", num |-> 50, den |-> 1]
\* C20: a second call on the same engine object with the same input
\* returns what the first call returned, for detect_storms,
\* generate_rag_status and every calculator; the engine's attribute is as
\* constructed.
C20_SecondCallSameResult ==
    run = 2 =>
        /\ pc = "done" => storms = first_result
        /\ pc = "rag_done" => rag_status = first_result
        /\ pc = "calc_done" => calc_result = first_result
        /\ risk_threshold = 80

\* C20 witness: the second detect_storms call has returned the two storms
\* of the first, the second of them finalized after the loop.
C20_Witness ==
    /\ run = 2
    /\ pc = "done"
    /\ Len(storms) = 2
    /\ current_storm # None
    /\ storms = first_result

\* index of the last rain-positive sample before sample k
LastPositiveBefore(k) ==
    CHOOSE j \in 1..(k - 1) :
        /\ rainfall_series[j] > 0
        /\ \A x \in (j + 1)..(k - 1) : rainfall_series[x] <= 0

\* C22: an iteration on a rain-positive sample with a storm open closes
\* that storm and opens the next one at this sample iff the time since the
\* last rain-positive sample is strictly greater than dry_gap_hours;
\* otherwise (a gap exactly equal to dry_gap_hours included) it extends the
\* open storm.
C22_SplitIffGapSinceLastRain ==
    [][(/\ pc = "loop"
        /\ i' = i + 1
        /\ rainfall_series[i] > 0
        /\ current_storm # None) =>
           LET ts == timestamps[i]
               exceeded == MoreThanDryGap(timestamps[LastPositiveBefore(i)], ts)
               closed == /\ Len(storms') = Len(storms) + 1
                         /\ SubSeq(storms', 1, Len(storms)) = storms
                         /\ storms'[Len(storms')].id = current_storm.id
                         /\ storms'[Len(storms')].end_time = current_storm.end_time
                         /\ current_storm'.id = current_storm.id + 1
                         /\ current_storm'.start_time = ts
                         /\ current_storm'.end_time = ts
                         /\ current_storm'.data = <<rainfall_series[i]>>
               extended == /\ storms' = storms
                           /\ current_storm'.id = current_storm.id
                           /\ current_storm'.start_time = current_storm.start_time
                           /\ current_storm'.end_time = ts
                           /\ current_storm'.data =
                                  Append(current_storm.data, rainfall_series[i])
           IN  /\ exceeded => closed
               /\ ~exceeded => extended
               /\ last_rain_time' = ts]_vars

\* C22 witness: with the default dry gap, the first storm was extended by
\* a sample exactly six hours after its first one and closed by a sample
\* more than six hours after that; the second storm is open.
C22_Witness ==
    /\ pc = "loop"
    /\ dry_gap_hours = 6
    /\ Len(storms) = 1
    /\ storms[1].end_time - storms[1].start_time = 6 * 3600
    /\ storms[1].depth_mm = rainfall_series[1] + rainfall_series[2]
    /\ current_storm # None
    /\ current_storm.id = 2
    /\ current_storm.start_time = timestamps[3]

\* the series with every non-positive sample deleted
PositiveTimestamps ==
    [j \in 1..Len(PositiveIdx) |-> timestamps[PositiveIdx[j]]]

PositiveRainfall ==
    [j \in 1..Len(PositiveIdx) |-> rainfall_series[PositiveIdx[j]]]

\* C23: an iteration on a sample of value <= 0 leaves the open-storm
\* accumulator, the last-rain-positive timestamp and the list of finalized
\* storms unchanged, and the returned list is the list detect_storms
\* returns for the series with all non-positive samples deleted.
C23_NonPositiveInert ==
    /\ [](Returned =>
             storms = detect_storms(PositiveTimestamps, PositiveRainfall,
                                    dry_gap_hours))
    /\ [][(/\ pc = "loop"
           /\ i' = i + 1
           /\ rainfall_series[i] <= 0) =>
              UNCHANGED <<storms, current_storm, last_rain_time>>]_vars

\* C23 witness: the call returned one storm for a series whose two
\* rain-positive samples are separated by a non-positive one.
C23_Witness ==
    /\ Returned
    /\ Len(rainfall_series) = 3
    /\ rainfall_series[1] > 0
    /\ rainfall_series[2] <= 0
    /\ rainfall_series[3] > 0
    /\ timestamps[1] < timestamps[3]
    /\ Len(storms) = 1
    /\ storms = detect_storms(PositiveTimestamps, PositiveRainfall, dry_gap_hours)

\* a storm of the reference loop and a storm of the specification's
\* algorithm agree in every field but the duration
SameStorm(storm, event) ==
    /\ storm.id = event.id
    /\ storm.start_time = event.start_time
    /\ storm.end_time = event.end_time
    /\ storm.depth_mm = event.depth_mm
    /\ storm.peak_intensity = event.peak_intensity
    /\ storm.status = event.significance

\* the two lists agree storm by storm in every field but the duration
SameStorms(list, events) ==
    /\ Len(list) = Len(events)
    /\ \A k \in 1..Len(list) : SameStorm(list[k], events[k])

\* the locals of the reference loop correspond to the state of the
\* specification's forward pass
LoopStatesCorrespond(seg) ==
    /\ SameStorms(storms, seg.finalized)
    /\ current_storm = None <=> seg.storm = Closed
    /\ current_storm # None =>
          /\ current_storm.id = seg.storm.id
          /\ current_storm.start_time = seg.storm.start_time
          /\ current_storm.end_time = seg.storm.end_time
          /\ current_storm.peak_intensity = seg.storm.peak_intensity
          /\ current_storm.data = seg.storm.accumulator
    /\ last_rain_time = seg.last

\* C24 (as amended): after every sample the locals of the reference loop
\* correspond to the state of the specification's algorithm, and the two
\* return the same storms in every field except the duration, where the
\* reference loop holds the specification's minutes truncated to a whole
\* number.
C24_LoopRefinesSegmenter ==
    /\ pc = "loop" =>
          LoopStatesCorrespond(SegmenterRun(timestamps, rainfall_series,
                                            dry_gap_hours, i - 1))
    /\ Returned =>
          LET events == StormSegmenter(timestamps, rainfall_series, dry_gap_hours)
          IN  /\ SameStorms(storms, events)
              /\ \A k \in StormIdx :
                    /\ storms[k].duration_mins * events[k].duration_minutes.den
                           <= events[k].duration_minutes.num
                    /\ events[k].duration_minutes.num <
                           (storms[k].duration_mins + 1)
                               * events[k].duration_minutes.den

\* C24 as stated: the two return the same storms field by field, the
\* duration included, and their loop states correspond after every sample.
C24_Original ==
    /\ pc = "loop" =>
          LoopStatesCorrespond(SegmenterRun(timestamps, rainfall_series,
                                            dry_gap_hours, i - 1))
    /\ Returned =>
          LET events == StormSegmenter(timestamps, rainfall_series, dry_gap_hours)
          IN  /\ SameStorms(storms, events)
              /\ \A k \in StormIdx :
                    events[k].duration_minutes = Rat(storms[k].duration_mins, 1)

\* C24 witness: both returned two storms, the first of two samples 90
\* seconds apart with the larger value first: 1 minute in the reference
\* loop, 3/2 minutes in the specification's algorithm.
C24_Witness ==
    /\ Returned
    /\ Len(storms) = 2
    /\ Len(StormSegmenter(timestamps, rainfall_series, dry_gap_hours)) = 2
    /\ storms[1].end_time - storms[1].start_time = 90
    /\ rainfall_series[1] > rainfall_series[2]
    /\ rainfall_series[2] > 0
    /\ storms[1].duration_mins = 1
    /\ StormSegmenter(timestamps, rainfall_series, dry_gap_hours)[1].duration_minutes
           = Rat(3, 2)

\* indices of the rain-positive samples before sample k, in series order
PositivesBefore(k) == SelectSeq(PositiveIdx, LAMBDA x : x < k)

\* the samples at positions a..b of PositiveIdx are pairwise-consecutively
\* at most dry_gap_hours apart
WithinDryGap(a, b) ==
    \A j \in a..(b - 1) :
        ~MoreThanDryGap(timestamps[PositiveIdx[j]], timestamps[PositiveIdx[j + 1]])

\* C25: the open storm holds the latest rain-positive samples processed,
\* each at most dry_gap_hours after the one before it, and every finalized
\* storm is a run of consecutive rain-positive samples, each at most
\* dry_gap_hours after the one before it; the span of the whole storm is
\* not bounded by dry_gap_hours.
C25_BurstPairsWithinDryGap ==
    /\ (pc \in {"loop", "done"} /\ current_storm # None) =>
          LET n == Len(current_storm.data)
              seen == Len(PositivesBefore(i))
          IN  /\ 1 <= n
              /\ n <= seen
              /\ \A j \in 1..n :
                    current_storm.data[j] = rainfall_series[PositiveIdx[seen - n + j]]
              /\ current_storm.start_time = timestamps[PositiveIdx[seen - n + 1]]
              /\ current_storm.end_time = timestamps[PositiveIdx[seen]]
              /\ WithinDryGap(seen - n + 1, seen)
    /\ \A k \in StormIdx :
          \E a, b \in 1..Len(PositiveIdx) :
              /\ a <= b
              /\ storms[k].start_time = timestamps[PositiveIdx[a]]
              /\ storms[k].end_time = timestamps[PositiveIdx[b]]
              /\ storms[k].depth_mm =
                     Sum([j \in 1..(b - a + 1) |-> rainfall_series[PositiveIdx[a + j - 1]]])
              /\ WithinDryGap(a, b)

\* C25 witness: a returned storm of three samples, 90 seconds and exactly
\* six hours apart, spanning more than the dry gap of six hours.
C25_Witness ==
    /\ Returned
    /\ dry_gap_hours = 6
    /\ Len(PositiveIdx) = 3
    /\ Len(storms) = 1
    /\ storms[1].end_time - storms[1].start_time > dry_gap_hours * 3600
    /\ WithinDryGap(1, 3)

\* sum of depth_mm over a list of finalized storms
RECURSIVE SumDepths(_)
SumDepths(list) ==
    IF list = <<>> THEN 0 ELSE list[1].depth_mm + SumDepths(Tail(list))

\* number of pairs of consecutive rain-positive samples more than
\* dry_gap_hours apart
NumDryGaps ==
    Cardinality({j \in 2..Len(PositiveIdx) :
                    MoreThanDryGap(timestamps[PositiveIdx[j - 1]],
                                   timestamps[PositiveIdx[j]])})

\* C26: during the loop the finalized depths plus the open storm's values
\* add up to the rain-positive values processed so far; the depths of the
\* returned storms add up to the rain-positive values of the series, and
\* the number of returned storms is 1 plus the number of consecutive
\* rain-positive pairs more than dry_gap_hours apart, 0 when the series
\* has no rain-positive sample.
C26_StormsPartitionRain ==
    /\ pc = "loop" =>
          SumDepths(storms)
              + (IF current_storm = None THEN 0 ELSE Sum(current_storm.data))
            = Sum([j \in 1..Len(PositivesBefore(i)) |->
                      rainfall_series[PositiveIdx[j]]])
    /\ Returned =>
          /\ SumDepths(storms) = Sum(PositiveRainfall)
          /\ Len(storms) = IF PositiveIdx = <<>> THEN 0 ELSE 1 + NumDryGaps

\* C26 witness: three rain-positive samples with one dry gap between
\* them returned as two storms, the first of two samples.
C26_Witness ==
    /\ Returned
    /\ Len(PositiveIdx) = 3
    /\ NumDryGaps = 1
    /\ Len(storms) = 2
    /\ storms[1].depth_mm + storms[2].depth_mm = Sum(rainfall_series)
    /\ storms[1].depth_mm > storms[2].depth_mm

\* C27: in every finalized storm 0 < peak_intensity <= depth_mm, so a peak
\* of 6 or more comes with a depth above 5 and the storm is Significant
\* exactly when depth_mm > 5.
C27_PeakWithinDepth ==
    \A k \in StormIdx :
        /\ 0 < storms[k].peak_intensity
        /\ storms[k].peak_intensity <= storms[k].depth_mm
        /\ storms[k].peak_intensity >= 6 => storms[k].depth_mm > 5
        /\ storms[k].status = "Significant" <=> storms[k].depth_mm > 5

\* C27 witness: a returned storm of the single value 6 (peak 6, depth 6,
\* Significant) and a returned Significant storm of two samples whose peak
\* is below 6 and below its depth.
C27_Witness ==
    /\ Returned
    /\ \E k \in StormIdx :
          /\ storms[k].peak_intensity = 6
          /\ storms[k].depth_mm = 6
          /\ storms[k].status = "Significant"
    /\ \E k \in StormIdx :
          /\ storms[k].peak_intensity < storms[k].depth_mm
          /\ storms[k].status = "Significant"
          /\ storms[k].peak_intensity < 6

\* C28: for non-decreasing timestamps every finalized storm has
\* start_time <= end_time and a non-negative duration, and when
\* dry_gap_hours >= 0 each storm ends strictly before the next one starts.
C28_DisjointIntervals ==
    NonDecreasing(timestamps) =>
        /\ \A k \in StormIdx :
              /\ storms[k].start_time <= storms[k].end_time
              /\ storms[k].duration_mins >= 0
        /\ dry_gap_hours >= 0 =>
              \A k \in StormIdx \ {Len(storms)} :
                  storms[k].end_time < storms[k + 1].start_time

\* C28 witness: with a dry gap of zero, two samples sharing a timestamp
\* form the first returned storm and a later sample the second.
C28_Witness ==
    /\ Returned
    /\ dry_gap_hours = 0
    /\ Len(storms) = 2
    /\ rainfall_series[1] > 0
    /\ rainfall_series[2] > 0
    /\ timestamps[1] = timestamps[2]
    /\ storms[1].start_time = storms[1].end_time
    /\ storms[1].depth_mm = rainfall_series[1] + rainfall_series[2]
    /\ storms[1].end_time < storms[2].start_time

\* the positions inside the body of the for loop
InsideIteration == {"line62", "line63", "line65", "line66", "line68", "line71"}

\* between two iterations the locals are those of the loop body applied to
\* the pairs processed so far, and the call returns the list of
\* detect_storms: the statement-by-statement steps and the loop body agree
StepsAgreeWithLoopBody ==
    /\ pc = "loop" =>
          [storms |-> storms, current_storm |-> current_storm,
           last_rain_time |-> last_rain_time]
            = RunLoop(timestamps, rainfall_series, dry_gap_hours, i - 1)
    /\ Returned =>
          storms = detect_storms(timestamps, rainfall_series, dry_gap_hours)

\* C29 (as amended): at the head of the loop, before every iteration and
\* at the loop's exit, the accumulator is open iff a last-rain-positive
\* timestamp is recorded iff a rain-positive sample has been processed,
\* and the id of the open storm is the number of finalized storms plus
\* one; at no statement does an open accumulator return to none.
C29_LoopInvariant ==
    /\ [](pc = "loop" =>
             /\ current_storm # None <=> last_rain_time # NoTime
             /\ last_rain_time # NoTime <=> PositivesBefore(i) # <<>>
             /\ current_storm # None => current_storm.id = Len(storms) + 1)
    /\ [][(pc \in {"loop"} \cup InsideIteration /\ current_storm # None) =>
              current_storm' # None]_vars

\* C29 as stated: the same at every point of the loop, between the
\* statements of an iteration included.
C29_Original ==
    /\ [](pc \in {"loop"} \cup InsideIteration =>
             /\ current_storm # None <=> last_rain_time # NoTime
             /\ last_rain_time # NoTime <=> PositivesBefore(i) # <<>>
             /\ current_storm # None => current_storm.id = Len(storms) + 1)
    /\ [][(pc \in {"loop"} \cup InsideIteration /\ current_storm # None) =>
              current_storm' # None]_vars

\* C29 witness: at the head of the loop after a split, the open storm is
\* the second and one storm is finalized; the sample that opened the first
\* storm was preceded by a non-positive one.
C29_Witness ==
    /\ pc = "loop"
    /\ rainfall_series[1] <= 0
    /\ Len(PositivesBefore(i)) = 2
    /\ Len(storms) = 1
    /\ current_storm # None
    /\ current_storm.id = 2
    /\ last_rain_time = timestamps[3]

\* what a call returns when executed alone
AloneResult(call) ==
    CASE call.fn = "detect_storms" ->
             detect_storms(call.args.timestamps, call.args.rainfall_series,
                           call.args.dry_gap_hours)
      [] call.fn = "generate_rag_status" ->
             generate_rag_status(call.args.metrics)
      [] call.fn = "calculate_completeness" ->
             calculate_completeness(call.args.actual_rows,
                                    call.args.expected_rows)

\* C21: of two calls on the same engine objects whose steps interleave in
\* any order, each returns what it returns when executed alone, and
\* risk_threshold stays as constructed.
C21_ConcurrentCallsIndependent ==
    /\ pc = "done" =>
          storms = detect_storms(timestamps, rainfall_series, dry_gap_hours)
    /\ pc = "rag_done" => rag_status = generate_rag_status(metrics)
    /\ (other_call # None /\ other_call.pc = "done") =>
          other_call.result = AloneResult(other_call)
    /\ risk_threshold = 80

\* C21 witness: two detect_storms runs on different series have both
\* returned, the first one storm and the second three.
C21_Witness ==
    /\ pc = "done"
    /\ Len(storms) = 1
    /\ other_call # None
    /\ other_call.fn = "detect_storms"
    /\ other_call.pc = "done"
    /\ Len(other_call.result) = 3
    /\ other_call.args.timestamps # timestamps

====
